---- MODULE Spec2Model ----
(***************************************************************************)
(* Model of gcv-client (src/src/lib.rs): the request handling of Client,   *)
(* the two accessors of Response, the derived serde codecs of the          *)
(* annotation data model and the BoundingBox geometry.                     *)
(*                                                                         *)
(* A serde_json::Value is a record [t, n, s, a, o]: t is the kind          *)
(* ("null", "int", "float", "str", "arr", "obj"), n the number (a float is *)
(* held in hundredths), s the string, a the array's elements and o the     *)
(* object's entries [k, v], keys unique and in key order as serde_json's   *)
(* Map keeps them.                                                         *)
(***************************************************************************)
EXTENDS Integers, Sequences, FiniteSets, TLC

\* Width to which the 64-bit integers of the source are scaled.
I64Bits == 12
\* Longest textAnnotations array the transport delivers.
MaxElems == 2
\* Longest vertices list the transport delivers.
MaxVerts == 5
\* Most accessor and geometry calls made on one Response.
MaxCalls == 3

Pow2(k) == 2 ^ k
MinI64 == 0 - Pow2(I64Bits - 1)
MaxI64 == Pow2(I64Bits - 1) - 1
MaxU64 == Pow2(I64Bits) - 1

---------------------------------------------------------------------------
\* serde_json::Value

JNull == [t |-> "null", n |-> 0, s |-> "", a |-> <<>>, o |-> <<>>]
JInt(i) == [t |-> "int", n |-> i, s |-> "", a |-> <<>>, o |-> <<>>]
JFloat(h) == [t |-> "float", n |-> h, s |-> "", a |-> <<>>, o |-> <<>>]
JStr(str) == [t |-> "str", n |-> 0, s |-> str, a |-> <<>>, o |-> <<>>]
JArr(elems) == [t |-> "arr", n |-> 0, s |-> "", a |-> elems, o |-> <<>>]
JObj(entries) == [t |-> "obj", n |-> 0, s |-> "", a |-> <<>>, o |-> entries]
KV(key, val) == [k |-> key, v |-> val]
\* seq with its i-th element replaced by e.
Replace(seq, i, e) == [j \in 1..Len(seq) |-> IF j = i THEN e ELSE seq[j]]

HasKey(v, key) == v.t = "obj" /\ \E i \in 1..Len(v.o) : v.o[i].k = key
Get(v, key) == v.o[CHOOSE i \in 1..Len(v.o) : v.o[i].k = key].v

\* Value's Index<&str>: the member, or Null when v is no object or lacks it.
IndexKey(v, key) == IF HasKey(v, key) THEN Get(v, key) ELSE JNull
\* Value's Index<usize> (0-based): the element, or Null.
IndexPos(v, i) == IF v.t = "arr" /\ i < Len(v.a) THEN v.a[i + 1] ELSE JNull

\* Variant: any member that is not null counts as an error.
is_not_null(v) == v.t # "null"
\* Value::is_object
is_object(v) == v.t = "obj"

\* Value's Display / to_string: the compact JSON text.
FracText(f) ==
  IF f % 10 = 0 THEN ToString(f \div 10)
  ELSE IF f < 10 THEN "0" \o ToString(f) ELSE ToString(f)
FloatText(h) ==
  IF h < 0 THEN "-" \o ToString((0 - h) \div 100) \o "." \o FracText((0 - h) % 100)
  ELSE ToString(h \div 100) \o "." \o FracText(h % 100)
RECURSIVE to_string(_)
RECURSIVE JoinElems(_, _)
RECURSIVE JoinEntries(_, _)
JoinElems(elems, i) ==
  IF i > Len(elems) THEN ""
  ELSE (IF i > 1 THEN "," ELSE "") \o to_string(elems[i]) \o JoinElems(elems, i + 1)
JoinEntries(entries, i) ==
  IF i > Len(entries) THEN ""
  ELSE (IF i > 1 THEN "," ELSE "") \o "\"" \o entries[i].k \o "\":"
       \o to_string(entries[i].v) \o JoinEntries(entries, i + 1)
to_string(v) ==
  CASE v.t = "null" -> "null"
    [] v.t = "int" -> ToString(v.n)
    [] v.t = "float" -> FloatText(v.n)
    [] v.t = "str" -> "\"" \o v.s \o "\""
    [] v.t = "arr" -> "[" \o JoinElems(v.a, 1) \o "]"
    [] v.t = "obj" -> "{" \o JoinEntries(v.o, 1) \o "}"

---------------------------------------------------------------------------
\* The typed data model and its derived Deserialize. A decode result is
\* [ok, val].

None == [some |-> FALSE, v |-> ""]
Some(str) == [some |-> TRUE, v |-> str]

Ok(value) == [ok |-> TRUE, val |-> value]

\* The failure of a decode carries no value.
Failed == [ok |-> FALSE, val |-> <<>>]

\* i64: an integer number within range; a float or a larger u64 is rejected.
DecI64(v) ==
  IF v.t = "int" /\ v.n >= MinI64 /\ v.n <= MaxI64 THEN Ok(v.n) ELSE Failed
\* f64 (in hundredths): any number.
DecF64(v) ==
  CASE v.t = "float" -> Ok(v.n)
    [] v.t = "int" -> Ok(100 * v.n)
    [] OTHER -> Failed
DecString(v) == IF v.t = "str" THEN Ok(v.s) ELSE Failed
\* Option<String>: null is None, anything else must be a string.
DecOptString(v) ==
  CASE v.t = "null" -> Ok(None)
    [] v.t = "str" -> Ok(Some(v.s))
    [] OTHER -> Failed
\* Variant: a missing Option field defaults to the empty string.
MissingOptionEmpty == Ok(Some(""))
\* An Option field that is missing is None.
MissingOption == Ok(None)

\* The structs: each field's name, its key in the JSON (serde's rename) and
\* its type, in declaration order.
F(name, key, ty) == [name |-> name, key |-> key, ty |-> ty]
TextAnnotation ==
  <<F("locale", "locale", "Option<String>"),
    F("description", "description", "String"),
    F("bounding_poly", "boundingPoly", "Polygon")>>
FullTextAnnotation == <<F("pages", "pages", "Vec<Page>")>>
Page == <<F("blocks", "blocks", "Vec<Block>")>>
Block ==
  <<F("block_type", "blockType", "String"),
    F("bounding_box", "boundingBox", "BoundingBox"),
    F("confidence", "confidence", "f64"),
    F("paragraphs", "paragraphs", "Vec<Paragraph>")>>
Paragraph ==
  <<F("bounding_box", "boundingBox", "BoundingBox"),
    F("confidence", "confidence", "f64"),
    F("words", "words", "Vec<Word>")>>
Word ==
  <<F("bounding_box", "boundingBox", "BoundingBox"),
    F("confidence", "confidence", "f64"),
    F("symbols", "symbols", "Vec<Symbol>")>>
Symbol ==
  <<F("bounding_box", "boundingBox", "BoundingBox"),
    F("confidence", "confidence", "f64"),
    F("text", "text", "String")>>
Polygon == <<F("vertices", "vertices", "Vec<Point>")>>
Point == <<F("x", "x", "i64"), F("y", "y", "i64")>>
BoundingBox == <<F("vertices", "vertices", "Vec<Point>")>>

Structs ==
  [TextAnnotation |-> TextAnnotation, FullTextAnnotation |-> FullTextAnnotation,
   Page |-> Page, Block |-> Block, Paragraph |-> Paragraph, Word |-> Word,
   Symbol |-> Symbol, Polygon |-> Polygon, Point |-> Point,
   BoundingBox |-> BoundingBox]
Vecs ==
  [p \in {<<"Vec<Page>", "Page">>, <<"Vec<Block>", "Block">>,
          <<"Vec<Paragraph>", "Paragraph">>, <<"Vec<Word>", "Word">>,
          <<"Vec<Symbol>", "Symbol">>, <<"Vec<Point>", "Point">>} |-> TRUE]
IsVec(ty) == \E p \in DOMAIN Vecs : p[1] = ty
ElemType(ty) == (CHOOSE p \in DOMAIN Vecs : p[1] = ty)[2]

\* A derived struct of n fields decodes from an object (by key, unknown keys
\* ignored) or from an array of exactly n elements (by position).
StructShape(v, n) == v.t = "obj" \/ (v.t = "arr" /\ Len(v.a) = n)

\* The sequence seq, each element computed once.
Once(seq) == <<>> \o seq

\* serde_json::from_value::<ty>(v), as #[derive(Deserialize)] decodes.
RECURSIVE Decode(_, _)
\* Variant: a missing Vec field defaults to the empty list (#[serde(default)]).
DecodeFieldDefault(v, f, idx) ==
  IF v.t = "arr" THEN Decode(f.ty, v.a[idx])
  ELSE IF HasKey(v, f.key) THEN Decode(f.ty, Get(v, f.key))
  ELSE IF f.ty = "Option<String>" THEN MissingOption
  ELSE IF IsVec(f.ty) THEN Ok(<<>>)
  ELSE Failed
\* The idx-th field f of a struct given as v.
DecodeField(v, f, idx) ==
  IF v.t = "arr" THEN Decode(f.ty, v.a[idx])
  ELSE IF HasKey(v, f.key) THEN Decode(f.ty, Get(v, f.key))
  ELSE IF f.ty = "Option<String>" THEN MissingOption
  ELSE Failed
Decode(ty, v) ==
  CASE ty = "i64" -> DecI64(v)
    [] ty = "f64" -> DecF64(v)
    [] ty = "String" -> DecString(v)
    [] ty = "Option<String>" -> DecOptString(v)
    [] IsVec(ty) ->
         IF v.t # "arr" THEN Failed
         ELSE LET rs == Once([i \in 1..Len(v.a) |-> Decode(ElemType(ty), v.a[i])])
              IN  IF \A i \in 1..Len(v.a) : rs[i].ok
                  THEN Ok([i \in 1..Len(v.a) |-> rs[i].val])
                  ELSE Failed
    [] OTHER ->
         LET fields == Structs[ty]
         IN  IF ~StructShape(v, Len(fields)) THEN Failed
             ELSE LET rs == Once([i \in 1..Len(fields) |-> DecodeField(v, fields[i], i)])
                      at(name) == CHOOSE i \in 1..Len(fields) : fields[i].name = name
                  IN  IF \A i \in 1..Len(fields) : rs[i].ok
                      THEN Ok([name \in {fields[i].name : i \in 1..Len(fields)} |->
                                 rs[at(name)].val])
                      ELSE Failed

ZeroPoint == [x |-> 0, y |-> 0]
ZeroPolygon == [vertices |-> <<>>]
ZeroBox == [vertices |-> <<>>]
ZeroTextAnnotation ==
  [locale |-> None, description |-> "", bounding_poly |-> ZeroPolygon]
ZeroFullTextAnnotation == [pages |-> <<>>]

DecTextAnnotation(v) == Decode("TextAnnotation", v)
DecFullTextAnnotation(v) == Decode("FullTextAnnotation", v)

---------------------------------------------------------------------------
\* The derived Serialize of the flat annotation model (to a Value, whose
\* Map keeps its keys in order).

SerPoint(p) == JObj(<<KV(Point[1].key, JInt(p.x)), KV(Point[2].key, JInt(p.y))>>)
SerPolygon(poly) ==
  JObj(<<KV(Polygon[1].key,
            JArr([i \in 1..Len(poly.vertices) |-> SerPoint(poly.vertices[i])]))>>)
\* Variant: None is written as its default, the empty string.
SerOptStringEmpty(opt) == JStr(opt.v)
SerOptString(opt) == IF opt.some THEN JStr(opt.v) ELSE JNull
SerTextAnnotation(ta) ==
  JObj(<<KV(TextAnnotation[3].key, SerPolygon(ta.bounding_poly)),
         KV(TextAnnotation[2].key, JStr(ta.description)),
         KV(TextAnnotation[1].key, SerOptString(ta.locale))>>)

---------------------------------------------------------------------------
\* BoundingBox geometry. Each operation gives the set of outcomes a build can
\* produce: an index past the end panics; an i64 subtraction that overflows
\* panics with overflow checks on and wraps with them off.

GeoOk(op, pt, num) == [kind |-> "ok", op |-> op, why |-> "", pt |-> pt, n |-> num]
GeoPanic(op, why) == [kind |-> "panic", op |-> op, why |-> why, pt |-> ZeroPoint, n |-> 0]
GeoNone == [kind |-> "none", op |-> "", why |-> "", pt |-> ZeroPoint, n |-> 0]

Wrap(n) == ((n - MinI64) % Pow2(I64Bits)) + MinI64
InI64(n) == n >= MinI64 /\ n <= MaxI64
\* a - b on i64
Sub(op, a, b) ==
  IF InI64(a - b) THEN {GeoOk(op, ZeroPoint, a - b)}
  ELSE {GeoPanic(op, "attempt to subtract with overflow"),
        GeoOk(op, ZeroPoint, Wrap(a - b))}

left_top(box) ==
  IF Len(box.vertices) < 2 THEN {GeoPanic("left_top", "index out of bounds")}
  ELSE {GeoOk("left_top", box.vertices[2], 0)}
width(box) ==
  IF Len(box.vertices) < 4 THEN {GeoPanic("width", "index out of bounds")}
  ELSE Sub("width", box.vertices[4].x, box.vertices[2].x)
height(box) ==
  IF Len(box.vertices) < 4 THEN {GeoPanic("height", "index out of bounds")}
  ELSE Sub("height", box.vertices[4].y, box.vertices[2].y)

---------------------------------------------------------------------------
\* Response: the accessors. Each gives the outcome of the call and the
\* Response as the call leaves it.

TaNone == [kind |-> "none", val |-> <<>>, msg |-> "", detail |-> ""]
TaOk(list) == [kind |-> "ok", val |-> list, msg |-> "", detail |-> ""]
TaErr(msg, detail) == [kind |-> "err", val |-> <<>>, msg |-> msg, detail |-> detail]
TaPanic(msg) == [kind |-> "panic", val |-> <<>>, msg |-> msg, detail |-> ""]

FtaNone == [kind |-> "none", val |-> ZeroFullTextAnnotation, msg |-> ""]
FtaOk(tree) == [kind |-> "ok", val |-> tree, msg |-> ""]
FtaErr(msg) == [kind |-> "err", val |-> ZeroFullTextAnnotation, msg |-> msg]

\* Variant: anything that is no array counts as the empty array.
as_array_or_empty(v) == [some |-> TRUE, elems |-> IF v.t = "arr" THEN v.a ELSE <<>>]
\* Value::as_array
as_array(v) == [some |-> v.t = "arr", elems |-> IF v.t = "arr" THEN v.a ELSE <<>>]

\* json_response["responses"][0][key]
Navigate(json_response, key) ==
  IndexKey(IndexPos(IndexKey(json_response, "responses"), 0), key)

\* The payload with the member `key` of responses[0] taken out (left Null).
SetKey(obj, key, val) ==
  JObj([i \in 1..Len(obj.o) |-> IF obj.o[i].k = key THEN KV(key, val) ELSE obj.o[i]])
\* Variant: the member is moved out of the payload (Value::take) for decoding.
AfterTake(json_response, key) ==
  LET responses == IndexKey(json_response, "responses")
      first == IndexPos(responses, 0)
  IN  IF HasKey(first, key)
      THEN SetKey(json_response, "responses",
                  JArr(Replace(responses.a, 1, SetKey(first, key, JNull))))
      ELSE json_response
\* x.clone() / value.clone(): the copy is what from_value consumes; the
\* payload behind &self stays as it is.
AfterClone(json_response, key) == json_response

text_annotations(self) ==
  LET text_annotations_value == Navigate(self, "textAnnotations")
      arr == as_array(text_annotations_value)
  IN  [self |-> AfterClone(self, "textAnnotations"),
       out |->
         IF ~arr.some
         THEN TaErr("text_annotations must be array", to_string(self))
         ELSE IF \E i \in 1..Len(arr.elems) : ~DecTextAnnotation(arr.elems[i]).ok
         THEN TaPanic("textAnnotation json value parse error")
         ELSE TaOk([i \in 1..Len(arr.elems) |->
                      DecTextAnnotation(arr.elems[i]).val])]

full_text_annotations(self) ==
  LET full_text_annotations_value == Navigate(self, "fullTextAnnotation")
      r == DecFullTextAnnotation(full_text_annotations_value)
  IN  [self |-> AfterClone(self, "fullTextAnnotation"),
       out |-> IF r.ok THEN FtaOk(r.val) ELSE FtaErr("serde_json::Error")]

---------------------------------------------------------------------------
\* Client::request, from the transport's reply on.

ReqNone == [kind |-> "none", msg |-> ""]
ReqOk == [kind |-> "ok", msg |-> ""]
ReqErr(msg) == [kind |-> "err", msg |-> msg]

request(json_response) ==
  LET err == IndexKey(json_response, "error")
  IN  IF is_object(err)
      THEN [out |-> ReqErr(to_string(err)), response |-> JNull]
      ELSE [out |-> ReqOk, response |-> json_response]

---------------------------------------------------------------------------
\* The payloads the transport can deliver (any JSON; these are the shapes
\* enumerated here).

Pt(x, y) == JObj(<<KV("x", JInt(x)), KV("y", JInt(y))>>)
\* The vertices of the literal of tests::deserialize_text_annotation.
EnginePts == <<Pt(1222, 1771), Pt(1944, 1834), Pt(1930, 1992), Pt(1208, 1928)>>
EnginePolyJson == JObj(<<KV("vertices", JArr(EnginePts))>>)
EngineJson ==
  JObj(<<KV("boundingPoly", EnginePolyJson), KV("description", JStr("ENGINE"))>>)

\* Vertices that do not decode as a Point ...
NoX == JObj(<<KV("y", JInt(7))>>)
NoY == JObj(<<KV("x", JInt(7))>>)
BadPoints ==
  {NoX, NoY, JObj(<<>>), JNull, JStr("p"), JArr(<<JInt(3)>>),
   JObj(<<KV("x", JFloat(150)), KV("y", JInt(2))>>),
   JObj(<<KV("x", JInt(MaxU64)), KV("y", JInt(2))>>),
   JObj(<<KV("x", JStr("1")), KV("y", JInt(2))>>)}
\* ... and unusual ones that do.
OddPoints ==
  {JArr(<<JInt(3), JInt(4)>>),
   JObj(<<KV("x", JInt(3)), KV("y", JInt(4)), KV("z", JInt(5))>>)}

\* Lists of k well-formed vertices, k = 0 .. MaxVerts.
PlainLists == {[i \in 1..k |-> EnginePts[((i - 1) % 4) + 1]] : k \in 0..MaxVerts}
\* Four vertices, one of them missing a coordinate.
MissingCoordLists ==
  {Replace(EnginePts, i, p) : i \in 1..4, p \in {NoX, NoY}}
OtherBadLists == {Replace(EnginePts, 2, p) : p \in BadPoints \ {NoX, NoY}}
OddLists == {Replace(EnginePts, 4, p) : p \in OddPoints}
\* Four vertices at the ends of the i64 range.
ExtremeLists ==
  {<<Pt(0, 0), Pt(0 - 1, 0 - 1), Pt(0, 0), Pt(MaxI64, MaxI64)>>,
   <<Pt(0, 0), Pt(1, 1), Pt(0, 0), Pt(MinI64, MinI64)>>,
   <<Pt(0, 0), Pt(MinI64, 0), Pt(0, 0), Pt(MaxI64, MaxI64)>>,
   <<Pt(0, 0), Pt(2, 3), Pt(0, 0), Pt(9, 3)>>}
VertexLists ==
  PlainLists \cup MissingCoordLists \cup OtherBadLists \cup OddLists
    \cup ExtremeLists

BoxOf(list) == JObj(<<KV("vertices", JArr(list))>>)
MissingCoordBoxes == {BoxOf(l) : l \in MissingCoordLists}
BoxVariants ==
  {BoxOf(l) : l \in VertexLists}
    \cup {JObj(<<>>), JObj(<<KV("vertices", JNull)>>), JStr("box"),
          JArr(<<JArr(EnginePts)>>), JArr(<<>>)}
GoodBox == BoxOf(EnginePts)

\* Elements of textAnnotations.
Elem(box) == JObj(<<KV("boundingPoly", box), KV("description", JStr("ENGINE"))>>)
LocaleElem(loc) ==
  JObj(<<KV("boundingPoly", GoodBox), KV("description", JStr("44097050")),
         KV("locale", loc)>>)
NoDescription == JObj(<<KV("boundingPoly", GoodBox)>>)
NoBoundingPoly == JObj(<<KV("description", JStr("ENGINE"))>>)
PositionalElem == JArr(<<JNull, JStr("ENGINE"), JArr(<<JArr(EnginePts)>>)>>)
ElemCore ==
  {EngineJson, LocaleElem(JStr("en")), NoDescription, Elem(BoxOf(Replace(EnginePts, 3, NoX))),
   PositionalElem}
ElemAll ==
  ElemCore \cup {Elem(b) : b \in BoxVariants}
    \cup {LocaleElem(JNull), LocaleElem(JStr("")), LocaleElem(JInt(5)),
          NoBoundingPoly, JStr("ENGINE"), JNull, JObj(<<>>),
          JArr(<<JStr("en"), JStr("ENGINE")>>),
          JObj(<<KV("boundingPoly", GoodBox), KV("description", JInt(5))>>)}

SeqsUpTo(S, n) == UNION {[1..k -> S] : k \in 0..n}
GoodPair == <<LocaleElem(JStr("en")), EngineJson>>
TaArrays ==
  SeqsUpTo(ElemCore, MaxElems) \cup {<<e>> : e \in ElemAll}
    \cup {<<LocaleElem(JStr("en")), e>> : e \in ElemAll}
\* What the member textAnnotations can be; Absent stands for no such key.
Absent == JStr("<absent>")
TaVariants ==
  {JArr(l) : l \in TaArrays}
    \cup {Absent, JNull, JStr("text"), JInt(0), JObj(<<>>),
          JObj(<<KV("0", EngineJson)>>)}
TaSmall == {Absent, JArr(GoodPair), JArr(<<NoDescription>>), JNull}

\* The fullTextAnnotation tree: one page, one block, one paragraph, two words
\* (confidences 0.9 and 0.95) of one symbol each, the boxes given.
SymbolJson(box) ==
  JObj(<<KV("boundingBox", box), KV("confidence", JFloat(99)), KV("text", JStr("4"))>>)
WordJson(box, conf, symbols) ==
  JObj(<<KV("boundingBox", box), KV("confidence", conf), KV("symbols", symbols)>>)
ParagraphJson(box, words) ==
  JObj(<<KV("boundingBox", box), KV("confidence", JFloat(93)), KV("words", words)>>)
BlockJson(type, box, paragraphs) ==
  JObj(<<KV("blockType", type), KV("boundingBox", box), KV("confidence", JInt(1)),
         KV("paragraphs", paragraphs)>>)
PageJson(blocks) == JObj(<<KV("blocks", blocks)>>)
FtaJson(pages) == JObj(<<KV("pages", pages)>>)
Tree(blockBox, paraBox, wordBox, symBox) ==
  FtaJson(JArr(<<PageJson(JArr(<<
    BlockJson(JStr("TEXT"), blockBox, JArr(<<
      ParagraphJson(paraBox, JArr(<<
        WordJson(wordBox, JFloat(90), JArr(<<SymbolJson(symBox)>>)),
        WordJson(GoodBox, JFloat(95), JArr(<<SymbolJson(GoodBox)>>))>>))>>))>>))>>))
GoodTree == Tree(GoodBox, GoodBox, GoodBox, GoodBox)
TreesWith(boxes) ==
  {Tree(b, GoodBox, GoodBox, GoodBox) : b \in boxes}
    \cup {Tree(GoodBox, b, GoodBox, GoodBox) : b \in boxes}
    \cup {Tree(GoodBox, GoodBox, b, GoodBox) : b \in boxes}
    \cup {Tree(GoodBox, GoodBox, GoodBox, b) : b \in boxes}
\* Well-formed trees but for one vertex of one box missing a coordinate.
MissingCoordTrees == TreesWith(MissingCoordBoxes)
\* Trees with a member missing or of the wrong type.
Without(obj, key) == JObj(SelectSeq(obj.o, LAMBDA e : e.k # key))
GoodSymbols == JArr(<<SymbolJson(GoodBox)>>)
GoodWord == WordJson(GoodBox, JFloat(90), GoodSymbols)
GoodParagraph == ParagraphJson(GoodBox, JArr(<<GoodWord>>))
GoodBlock == BlockJson(JStr("TEXT"), GoodBox, JArr(<<GoodParagraph>>))
InBlock(paragraph) ==
  FtaJson(JArr(<<PageJson(JArr(<<
    BlockJson(JStr("TEXT"), GoodBox, JArr(<<paragraph>>))>>))>>))
InParagraph(word) == InBlock(ParagraphJson(GoodBox, JArr(<<word>>)))
InWord(symbol) == InParagraph(WordJson(GoodBox, JFloat(90), JArr(<<symbol>>)))
BrokenTrees ==
  {JObj(<<>>), FtaJson(JNull), FtaJson(JStr("pages")), FtaJson(JObj(<<>>)),
   FtaJson(JArr(<<JObj(<<>>)>>)), FtaJson(JArr(<<PageJson(JStr("b"))>>)),
   FtaJson(JArr(<<PageJson(JArr(<<JNull>>))>>))}
    \cup {FtaJson(JArr(<<PageJson(JArr(<<Without(GoodBlock, k)>>))>>)) :
            k \in {"blockType", "boundingBox", "confidence", "paragraphs"}}
    \cup {InBlock(Without(GoodParagraph, k)) : k \in {"boundingBox", "confidence", "words"}}
    \cup {InParagraph(Without(GoodWord, k)) : k \in {"boundingBox", "confidence", "symbols"}}
    \cup {InWord(Without(SymbolJson(GoodBox), k)) : k \in {"boundingBox", "confidence", "text"}}
    \cup {InParagraph(WordJson(GoodBox, JStr("0.9"), GoodSymbols)),
          InParagraph(WordJson(GoodBox, JFloat(90), JObj(<<>>))),
          InWord(JObj(<<KV("boundingBox", GoodBox), KV("confidence", JFloat(99)),
                        KV("text", JInt(4))>>)),
          FtaJson(JArr(<<PageJson(JArr(<<BlockJson(JInt(1), GoodBox, JArr(<<>>))>>))>>))}
\* Trees in unusual shapes that decode: empty lists, an unknown blockType, an
\* unknown member, structs given by position.
OddTrees ==
  {FtaJson(JArr(<<>>)), FtaJson(JArr(<<PageJson(JArr(<<>>))>>)),
   FtaJson(JArr(<<PageJson(JArr(<<BlockJson(JStr("TABLE"), GoodBox, JArr(<<>>))>>))>>)),
   JObj(<<KV("pages", JArr(<<>>)), KV("text", JStr("44097050"))>>),
   JArr(<<JArr(<<>>)>>), JArr(<<JArr(<<JArr(<<JArr(<<>>)>>)>>)>>),
   InWord(JArr(<<JArr(<<JArr(EnginePts)>>), JInt(1), JStr("4")>>))}
NotTrees == {Absent, JNull, JStr("tree"), JInt(1), JArr(<<>>), JArr(<<JNull>>),
             JArr(<<JArr(<<>>), JArr(<<>>)>>)}
FtaVariants ==
  TreesWith(BoxVariants) \cup BrokenTrees \cup OddTrees \cup NotTrees
FtaSmall == {Absent, GoodTree, Tree(GoodBox, BoxOf(<<>>), GoodBox, GoodBox), JArr(<<JArr(<<>>)>>)}

\* responses[0]
Annotated(ta, fta) ==
  JObj((IF fta = Absent THEN <<>> ELSE <<KV("fullTextAnnotation", fta)>>)
         \o (IF ta = Absent THEN <<>> ELSE <<KV("textAnnotations", ta)>>))
Reply(ta, fta) == JObj(<<KV("responses", JArr(<<Annotated(ta, fta)>>))>>)
ErrorObjects ==
  {JObj(<<KV("code", JInt(401)), KV("message", JStr("denied")),
          KV("status", JStr("UNAUTHENTICATED"))>>),
   JObj(<<>>), JObj(<<KV("details", JArr(<<JNull, JFloat(50)>>))>>)}
NotErrorObjects == {JNull, JStr("quota"), JInt(0), JArr(<<JObj(<<>>)>>)}
WithError(err, reply) == JObj(<<KV("error", err)>> \o reply.o)
GoodReply == Reply(JArr(GoodPair), GoodTree)
Replies ==
  {Reply(ta, GoodTree) : ta \in TaVariants}
    \cup {Reply(JArr(GoodPair), fta) : fta \in FtaVariants}
    \cup {Reply(ta, fta) : ta \in TaSmall, fta \in FtaSmall}
    \cup {WithError(e, r) : e \in ErrorObjects \cup NotErrorObjects,
                             r \in {GoodReply, JObj(<<>>)}}
    \cup {JObj(<<>>), JNull, JStr("ok"), JArr(<<GoodReply>>),
          JObj(<<KV("responses", JArr(<<>>))>>),
          JObj(<<KV("responses", JNull)>>),
          JObj(<<KV("responses", JObj(<<KV("0", Annotated(JArr(GoodPair), GoodTree))>>))>>),
          JObj(<<KV("responses", JArr(<<JNull, Annotated(JArr(GoodPair), GoodTree)>>))>>),
          JObj(<<KV("responses", JArr(<<JArr(<<>>)>>))>>)}

---------------------------------------------------------------------------
\* The client: one request, then calls on the Response it returned.

VARIABLES
  phase,     \* "new", "ready" (a Response is held), "failed" (request gave the
             \* service's error), "noreply" (the transport failed), "dead" (a
             \* panic ended the caller), "off" (no client)
  reply,     \* the payload the transport delivered
  reqOut,    \* what request returned
  response,  \* Response.response
  taOut,     \* what the last text_annotations call returned
  ftaOut,    \* what the last full_text_annotations call returned
  geoBox,    \* the BoundingBox last measured
  geoOut,    \* what the last left_top / width / height call returned
  calls,     \* calls made on the Response: [ta, fta, geo]
  \* the codec of the flat annotation, on its own
  cstep,     \* "value", "json", "decoded", or "off"
  origin,    \* where the round started: "value" or "json"
  typed,     \* the TextAnnotation to encode
  json,      \* the Value to decode
  decoded    \* the result of decoding

clientVars == <<phase, reply, reqOut, response, taOut, ftaOut, geoBox, geoOut, calls>>
codecVars == <<cstep, origin, typed, json, decoded>>
vars == <<clientVars, codecVars>>

SeqRange(seq) == {seq[i] : i \in 1..Len(seq)}
\* Every BoundingBox of a decoded tree.
AllBoxes(tree) ==
  LET blocks == UNION {SeqRange(p.blocks) : p \in SeqRange(tree.pages)}
      paragraphs == UNION {SeqRange(b.paragraphs) : b \in blocks}
      words == UNION {SeqRange(p.words) : p \in paragraphs}
      symbols == UNION {SeqRange(w.symbols) : w \in words}
  IN  {n.bounding_box : n \in blocks \cup paragraphs \cup words \cup symbols}

NoCalls == [ta |-> 0, fta |-> 0, geo |-> 0]
MayCall == phase = "ready" /\ calls.ta + calls.fta + calls.geo < MaxCalls

CodecOff ==
  /\ cstep = "off" /\ origin = "off" /\ typed = ZeroTextAnnotation
  /\ json = JNull /\ decoded = Failed

Init ==
  /\ phase = "new"
  /\ reply = JNull
  /\ reqOut = ReqNone
  /\ response = JNull
  /\ taOut = TaNone
  /\ ftaOut = FtaNone
  /\ geoBox = ZeroBox
  /\ geoOut = GeoNone
  /\ calls = NoCalls
  /\ CodecOff

\* request: the transport delivers a payload.
Request ==
  /\ phase = "new"
  /\ \E json_response \in Replies :
       LET r == request(json_response)
       IN  /\ reply' = json_response
           /\ reqOut' = r.out
           /\ response' = r.response
           /\ phase' = IF r.out.kind = "ok" THEN "ready" ELSE "failed"
  /\ UNCHANGED <<taOut, ftaOut, geoBox, geoOut, calls, codecVars>>

\* request: send() or json() fails and `?` returns the error.
RequestTransportError ==
  /\ phase = "new"
  /\ reqOut' = ReqErr("transport")
  /\ phase' = "noreply"
  /\ UNCHANGED <<reply, response, taOut, ftaOut, geoBox, geoOut, calls, codecVars>>

\* A panic unwinds: the caller either ends there or catches it and goes on.
AfterPanic(panicked) == IF panicked THEN {"ready", "dead"} ELSE {"ready"}

CallTextAnnotations ==
  /\ MayCall
  /\ LET r == text_annotations(response)
     IN  /\ taOut' = r.out
         /\ response' = r.self
         /\ phase' \in AfterPanic(r.out.kind = "panic")
  /\ calls' = [calls EXCEPT !.ta = @ + 1]
  /\ UNCHANGED <<reply, reqOut, ftaOut, geoBox, geoOut, codecVars>>

CallFullTextAnnotations ==
  /\ MayCall
  /\ LET r == full_text_annotations(response)
     IN  /\ ftaOut' = r.out
         /\ response' = r.self
  /\ calls' = [calls EXCEPT !.fta = @ + 1]
  /\ UNCHANGED <<phase, reply, reqOut, taOut, geoBox, geoOut, codecVars>>

Measure(box, outcomes) ==
  /\ geoBox' = box
  /\ \E out \in outcomes :
       /\ geoOut' = out
       /\ phase' \in AfterPanic(out.kind = "panic")
  /\ calls' = [calls EXCEPT !.geo = @ + 1]
  /\ UNCHANGED <<reply, reqOut, response, taOut, ftaOut, codecVars>>

LeftTop ==
  /\ MayCall /\ ftaOut.kind = "ok"
  /\ \E box \in AllBoxes(ftaOut.val) : Measure(box, left_top(box))

Width ==
  /\ MayCall /\ ftaOut.kind = "ok"
  /\ \E box \in AllBoxes(ftaOut.val) : Measure(box, width(box))

Height ==
  /\ MayCall /\ ftaOut.kind = "ok"
  /\ \E box \in AllBoxes(ftaOut.val) : Measure(box, height(box))

Next ==
  \/ Request
  \/ RequestTransportError
  \/ CallTextAnnotations
  \/ CallFullTextAnnotations
  \/ LeftTop
  \/ Width
  \/ Height

Spec == Init /\ [][Next]_vars

---------------------------------------------------------------------------
\* The flat annotation's codec on its own: a TextAnnotation is encoded and the
\* encoding decoded, or a given Value is decoded.

Locales == {None, Some(""), Some("en")}
Descriptions == {"", "ENGINE"}
SamplePoints == {[x |-> 1222, y |-> 1771], [x |-> MinI64, y |-> MaxI64], [x |-> 0, y |-> 0 - 1]}
TextAnnotationValues ==
  {[locale |-> l, description |-> d, bounding_poly |-> [vertices |-> vs]] :
     l \in Locales, d \in Descriptions, vs \in SeqsUpTo(SamplePoints, MaxVerts)}
\* Encodings with the member `locale` left out, and the literal of the test.
JsonSamples ==
  {Without(SerTextAnnotation(ta), "locale") : ta \in TextAnnotationValues}
    \cup {EngineJson}

ClientOff ==
  /\ phase = "off" /\ reply = JNull /\ reqOut = ReqNone /\ response = JNull
  /\ taOut = TaNone /\ ftaOut = FtaNone /\ geoBox = ZeroBox /\ geoOut = GeoNone
  /\ calls = NoCalls

CodecInit ==
  /\ ClientOff
  /\ decoded = Failed
  /\ \/ /\ origin = "value" /\ cstep = "value"
        /\ typed \in TextAnnotationValues
        /\ json = JNull
     \/ /\ origin = "json" /\ cstep = "json"
        /\ typed = ZeroTextAnnotation
        /\ json \in JsonSamples

\* serde_json::to_value(&text_annotation)
Serialize ==
  /\ cstep = "value"
  /\ json' = SerTextAnnotation(typed)
  /\ cstep' = "json"
  /\ UNCHANGED <<origin, typed, decoded, clientVars>>

\* serde_json::from_value::<TextAnnotation>(json)
Deserialize ==
  /\ cstep = "json"
  /\ decoded' = DecTextAnnotation(json)
  /\ cstep' = "decoded"
  /\ UNCHANGED <<origin, typed, json, clientVars>>

CodecNext ==
  \/ Serialize
  \/ Deserialize

CodecSpec == CodecInit /\ [][CodecNext]_vars

---------------------------------------------------------------------------
\* Properties.

\* A Response was returned (and is still held, or a panic ended the caller).
Held == phase \in {"ready", "dead"}
TaPath == Navigate(reply, "textAnnotations")
FtaPath == Navigate(reply, "fullTextAnnotation")
FirstResponse == IndexPos(IndexKey(reply, "responses"), 0)

\* C1: when an element of responses[0].textAnnotations does not decode,
\* text_annotations() returns a failure: it does not panic and returns no list.
C1_UndecodableElementReturnsFailure ==
  (/\ Held /\ taOut.kind # "none" /\ TaPath.t = "arr"
   /\ \E i \in 1..Len(TaPath.a) : ~DecTextAnnotation(TaPath.a[i]).ok)
    => taOut.kind = "err"

\* C2: when responses[0].textAnnotations is absent or not an array,
\* text_annotations() returns the failure "text_annotations must be array":
\* no panic, and no successful (empty) list.
C2_NotAnArrayIsSchemaError ==
  (Held /\ taOut.kind # "none" /\ TaPath.t # "arr")
    => /\ taOut.kind = "err"
       /\ taOut.msg = "text_annotations must be array"
       /\ taOut.val = <<>>
C2_Witness ==
  /\ Held /\ taOut.kind = "err"
  /\ FirstResponse.t = "obj" /\ ~HasKey(FirstResponse, "textAnnotations")

\* C3: full_text_annotation() succeeds on a tree that is well-formed but for a
\* boundingBox vertex missing a coordinate.
C3_MissingCoordinateDecodes ==
  (Held /\ ftaOut.kind # "none" /\ FtaPath \in MissingCoordTrees)
    => ftaOut.kind = "ok"

\* C4: every polygon and box of a successful result has exactly 4 vertices, so
\* left_top, width and height never index out of range.
C4_ExactlyFourVertices ==
  /\ ftaOut.kind = "ok" => \A b \in AllBoxes(ftaOut.val) : Len(b.vertices) = 4
  /\ taOut.kind = "ok" =>
       \A i \in 1..Len(taOut.val) : Len(taOut.val[i].bounding_poly.vertices) = 4
  /\ ~(geoOut.kind = "panic" /\ geoOut.why = "index out of bounds")

\* C5: a reply with an `error` object at its top level makes request() fail with
\* that object's text as the message, and no Response exists to call an accessor
\* on; any other reply is wrapped as it is.
C5_ErrorObjectIsServiceError ==
  phase \in {"ready", "dead", "failed"} =>
    LET err == IndexKey(reply, "error")
    IN  IF err.t = "obj"
        THEN /\ phase = "failed"
             /\ reqOut = ReqErr(to_string(err))
             /\ response = JNull
             /\ taOut.kind = "none" /\ ftaOut.kind = "none"
        ELSE /\ phase # "failed"
             /\ reqOut = ReqOk
             /\ response = reply
C5_Witness ==
  /\ phase = "failed"
  /\ reqOut.msg = "{\"code\":401,\"message\":\"denied\",\"status\":\"UNAUTHENTICATED\"}"
  /\ HasKey(reply, "responses")

\* The tree schema: whether v has the shape of type ty, every struct an object
\* with its required members (positional: or an array of its fields in order).
RECURSIVE Conforms(_, _, _)
Conforms(ty, v, positional) ==
  CASE ty = "i64" -> v.t = "int" /\ InI64(v.n)
    [] ty = "f64" -> v.t \in {"int", "float"}
    [] ty = "String" -> v.t = "str"
    [] ty = "Option<String>" -> v.t \in {"null", "str"}
    [] IsVec(ty) ->
         v.t = "arr" /\ \A i \in 1..Len(v.a) : Conforms(ElemType(ty), v.a[i], positional)
    [] OTHER ->
         LET fields == Structs[ty]
         IN  \/ /\ v.t = "obj"
                /\ \A i \in 1..Len(fields) :
                     IF HasKey(v, fields[i].key)
                     THEN Conforms(fields[i].ty, Get(v, fields[i].key), positional)
                     ELSE fields[i].ty = "Option<String>"
             \/ /\ positional /\ v.t = "arr" /\ Len(v.a) = Len(fields)
                /\ \A i \in 1..Len(fields) : Conforms(fields[i].ty, v.a[i], positional)

C7_WidthHeightExact ==
  (geoOut.kind # "none" /\ Len(geoBox.vertices) = 4) =>
    /\ geoOut.kind = "ok"
    /\ geoOut.op = "left_top" => geoOut.pt = geoBox.vertices[2]
    /\ geoOut.op = "width" => geoOut.n = geoBox.vertices[4].x - geoBox.vertices[2].x
    /\ geoOut.op = "height" => geoOut.n = geoBox.vertices[4].y - geoBox.vertices[2].y

\* C8: the accessors leave the payload as it was delivered, and every call, in
\* any order and however often repeated, returns what a first and only call on
\* the delivered payload returns.
C8_AccessorsPure ==
  Held =>
    /\ response = reply
    /\ taOut.kind # "none" => taOut = text_annotations(reply).out
    /\ ftaOut.kind # "none" => ftaOut = full_text_annotations(reply).out
C8_Witness ==
  /\ Held /\ calls.ta >= 2 /\ calls.fta >= 1
  /\ taOut.kind = "ok" /\ ftaOut.kind = "ok"

\* C9: an annotation object without the member `locale` decodes with locale
\* None (not an empty string), its description and its vertices as given and in
\* order; the literal of the test gives "ENGINE", 4 vertices, the first
\* (1222, 1771).
C9_MissingLocaleIsNone ==
  (cstep = "decoded" /\ origin = "json" /\ json.t = "obj" /\ ~HasKey(json, "locale")) =>
    LET given == Get(Get(json, "boundingPoly"), "vertices").a
        got == decoded.val.bounding_poly.vertices
    IN  /\ decoded.ok
        /\ ~decoded.val.locale.some
        /\ decoded.val.locale # Some("")
        /\ decoded.val.description = Get(json, "description").s
        /\ Len(got) = Len(given)
        /\ \A i \in 1..Len(given) :
             got[i].x = Get(given[i], "x").n /\ got[i].y = Get(given[i], "y").n
        /\ json = EngineJson =>
             /\ decoded.val.description = "ENGINE"
             /\ Len(got) = 4
             /\ got[1] = [x |-> 1222, y |-> 1771]
C9_Witness ==
  cstep = "decoded" /\ origin = "json" /\ json = EngineJson /\ decoded.ok

\* C10: encoding a TextAnnotation and decoding the encoding gives the value
\* back, field for field, with locale present and with locale absent.
C10_RoundTrip ==
  (cstep = "decoded" /\ origin = "value") => (decoded.ok /\ decoded.val = typed)
C10_Witness ==
  /\ cstep = "decoded" /\ origin = "value" /\ decoded.ok
  /\ ~typed.locale.some /\ Len(typed.bounding_poly.vertices) = 4

====
